---- MODULE Spec2Model ----
(***************************************************************************)
(* Biblioteca de Facas (app.py): the facas table, the uploads/ and thumbs/ *)
(* directories, the per-session delete confirmation, and the script passes *)
(* of the Streamlit page that act on them.                                 *)
(*                                                                         *)
(* Representation.  A text (name, description, search term) is a sequence  *)
(* of one-character strings, so that SQL LIKE can be computed on it.  A    *)
(* file name is a pair <<stem, suffix>>.  SQL NULL / Python None in a      *)
(* column is the 1-tuple None; a timestamp text is a 1-tuple too.  An      *)
(* uploaded file is a record with its client-side name and its buffer; the *)
(* buffer of a PDF is abstracted to its page count, which is all           *)
(* generate_pdf_thumbnail depends on.                                      *)
(*                                                                         *)
(* Widgets.  The values of the sidebar menu, of the search box and of the  *)
(* form fields live in the browser; a pass reads them as its inputs.  A    *)
(* pass of the list view computes the listing with get_facas_db and its    *)
(* buttons act on an entry of that listing.                                *)
(***************************************************************************)
EXTENDS Integers, Sequences, FiniteSets, TLC

VARIABLES
    rows,            \* table facas, in rowid order, a record per row keyed by column
    autoinc,         \* sqlite_sequence of facas: the last id AUTOINCREMENT gave out
    uploads,         \* UPLOAD_DIR: stored file name -> buffer
    thumbs,          \* THUMB_DIR: set of file names
    clock,           \* the last datetime.datetime.now() read, in whole seconds
    issued,          \* how many tokens uuid.uuid4() has returned
    delete_id,       \* st.session_state.delete_id
    confirm_delete,  \* st.session_state.confirm_delete
    message,         \* what the last pass reported with st.error / st.success
    edit_form,       \* id of the entry whose form_edit the last pass rendered
    rerun            \* st.rerun() was called: the script is about to run again

vars == <<rows, autoinc, uploads, thumbs, clock, issued, delete_id, confirm_delete,
          message, edit_form, rerun>>

\* Bounds of the model.
MaxId == 2       \* ids AUTOINCREMENT may give out (number of successful Adds)
MaxUploads == 2  \* files save_upload may store (tokens uuid4 may return)
MaxClock == 1    \* seconds datetime.datetime.now() may read: 0..MaxClock

\* ---------------------------------------------------------------------------
\* Values
\* ---------------------------------------------------------------------------
None == <<"None">>
NoId == 0
NoInfo == <<>>
NoFile == [name |-> None, buffer |-> -1]

NoMessage == ""
MsgExcluido == "Registro excluido com sucesso!"
MsgNome == "E necessario informar um nome."
MsgPdf == "E necessario enviar o arquivo PDF."
MsgAdicionada == "Faca adicionada!"
MsgConfirma == "Confirma a exclusao do registro?"

\* The views of the sidebar menu (line 202).
Menus == {"Listar Facas", "Adicionar Faca", "Sobre"}

\* What the user may type or upload.
\* The name and description fields of a form, as submitted together.
TextInputs == {[name |-> <<>>, description |-> <<>>],
               [name |-> <<"a">>, description |-> <<"A">>]}
SearchInputs == {<<>>, <<"a">>, <<"_">>, <<"%">>}
PdfInputs == {[name |-> <<"Faca", ".PDF">>, buffer |-> 2],
              [name |-> <<"vazio", ".pdf">>, buffer |-> 0]}
CdrInputs == {[name |-> <<"arte", ".CDR">>, buffer |-> -1]}

\* ---------------------------------------------------------------------------
\* File helpers
\* ---------------------------------------------------------------------------
\* str.lower() on the suffixes the inputs carry.
Lower(s) == CASE s = ".PDF" -> ".pdf"
              [] s = ".CDR" -> ".cdr"
              [] OTHER -> s

\* Path(name).suffix and Path(name).stem
Suffix(name) == name[2]
Stem(name) == name[1]

Uid(n) == "u" \o ToString(n)
ThumbOf(stored) == <<Stem(stored) \o "_p0", ".png">>

\* uuid4 never returns the same token twice: the n-th call returns token n.
uuid4(n) == Uid(n)

\* save_upload on the directory and token count st: both afterwards, and the
\* returned (stored_name, original name).
save_upload(st, uploaded_file) ==
    LET ext == Lower(Suffix(uploaded_file.name))
        stored_name == <<uuid4(st.issued + 1), ext>>
    IN  [uploads |-> (stored_name :> uploaded_file.buffer) @@ st.uploads,
         issued |-> st.issued + 1,
         info |-> <<stored_name, uploaded_file.name>>]

\* A file input left empty: nothing is stored.
no_upload(st) == [uploads |-> st.uploads, issued |-> st.issued, info |-> NoInfo]

Disk == [uploads |-> uploads, issued |-> issued]

\* The number of files among file inputs.
Files(inputs) == Cardinality({k \in 1..Len(inputs) : inputs[k] # NoFile})

\* generate_pdf_thumbnail(UPLOAD_DIR / stored) with page_number = 0: the
\* thumbs directory afterwards and the returned thumb name, None when the
\* document cannot be opened or has no page.
generate_pdf_thumbnail(up, th, stored) ==
    IF stored \notin DOMAIN up \/ up[stored] < 1
    THEN [thumbs |-> th, thumb |-> None]
    ELSE [thumbs |-> th \cup {ThumbOf(stored)}, thumb |-> ThumbOf(stored)]

Restrict(up, names) == [p \in names |-> up[p]]

\* ---------------------------------------------------------------------------
\* DB helpers
\* ---------------------------------------------------------------------------
Ids(rws) == {rws[i].id : i \in 1..Len(rws)}

RowById(rws, id) == rws[CHOOSE i \in 1..Len(rws) : rws[i].id = id]

\* isoformat(sep=" ", timespec="seconds") of the clock reading n, and the
\* reading a timestamp text stands for.  Timestamps of this one format
\* compare as texts the way their readings compare as numbers.
Time(n) == <<"2026-01-01 00:00:0" \o ToString(n)>>
Seconds(ts) == CHOOSE n \in 0..MaxClock : Time(n) = ts

\* A variant of add_faca_db that binds name and description to each other's
\* column.
add_faca_db_swapped(now, name, description, pdf_info, cdr_info, thumb_path) ==
    LET pdf == IF pdf_info # NoInfo THEN pdf_info ELSE <<None, None>>
        cdr == IF cdr_info # NoInfo THEN cdr_info ELSE <<None, None>>
    IN  Append(rows,
               [id |-> autoinc + 1,
                name |-> description,
                description |-> name,
                pdf_filename |-> pdf[1],
                pdf_original_name |-> pdf[2],
                thumb |-> thumb_path,
                cdr_filename |-> cdr[1],
                cdr_original_name |-> cdr[2],
                uploaded_at |-> Time(now)])

add_faca_db(now, name, description, pdf_info, cdr_info, thumb_path) ==
    LET uploaded_at == Time(now)
        pdf == IF pdf_info # NoInfo THEN pdf_info ELSE <<None, None>>
        cdr == IF cdr_info # NoInfo THEN cdr_info ELSE <<None, None>>
    IN  Append(rows,
               [id |-> autoinc + 1,
                name |-> name,
                description |-> description,
                pdf_filename |-> pdf[1],
                pdf_original_name |-> pdf[2],
                thumb |-> thumb_path,
                cdr_filename |-> cdr[1],
                cdr_original_name |-> cdr[2],
                uploaded_at |-> uploaded_at])

\* SQLite LIKE: % matches any run of characters, _ any one character, any
\* other character itself, ASCII letters without regard to case.
LowerChar(c) == CASE c = "A" -> "a"
                  [] c = "B" -> "b"
                  [] OTHER -> c

RECURSIVE LikeMatch(_, _)
LikeMatch(pat, s) ==
    IF pat = <<>> THEN s = <<>>
    ELSE IF Head(pat) = "%"
         THEN LikeMatch(Tail(pat), s) \/ (s # <<>> /\ LikeMatch(pat, Tail(s)))
         ELSE /\ s # <<>>
              /\ Head(pat) = "_" \/ LowerChar(Head(pat)) = LowerChar(Head(s))
              /\ LikeMatch(Tail(pat), Tail(s))

\* column LIKE q; NULL LIKE q is NULL, which WHERE takes as false.
Like(col, q) == col # None /\ LikeMatch(q, col)

\* The rows the WHERE clause of get_facas_db keeps, as indices into rws.
Selected(rws, srch) ==
    IF srch # <<>>
    THEN LET q == <<"%">> \o srch \o <<"%">>
         IN  {i \in 1..Len(rws) : Like(rws[i].name, q) \/ Like(rws[i].description, q)}
    ELSE 1..Len(rws)

\* A variant of the ordering below: ORDER BY uploaded_at ASC.
OrderByUploadedAtAsc(rws, sel) ==
    {p \in [1..Cardinality(sel) -> sel] :
        /\ \A j, k \in 1..Cardinality(sel) : j # k => p[j] # p[k]
        /\ \A j, k \in 1..Cardinality(sel) :
              j < k => Seconds(rws[p[j]].uploaded_at) <= Seconds(rws[p[k]].uploaded_at)}

\* ORDER BY uploaded_at DESC: SQL leaves the order of rows with equal keys
\* open, so every order with non-increasing uploaded_at is a possible result.
OrderByUploadedAtDesc(rws, sel) ==
    {p \in [1..Cardinality(sel) -> sel] :
        /\ \A j, k \in 1..Cardinality(sel) : j # k => p[j] # p[k]
        /\ \A j, k \in 1..Cardinality(sel) :
              j < k => Seconds(rws[p[j]].uploaded_at) >= Seconds(rws[p[k]].uploaded_at)}

\* The columns of facas in the order SELECT * returns them: those of CREATE
\* TABLE (lines 34-39), then those ALTER TABLE adds (lines 44-60).
Columns == <<"id", "name", "description", "uploaded_at", "pdf_filename",
             "pdf_original_name", "thumb", "cdr_filename", "cdr_original_name">>

\* The keys get_facas_db zips a fetched row with (line 97).
keys == <<"id", "name", "description", "pdf_filename", "pdf_original_name",
          "thumb", "cdr_filename", "cdr_original_name", "uploaded_at">>

\* dict(zip(keys, r)) for the row r that SELECT * fetches: the k-th key gets
\* the value of the k-th column.
Entry(row) ==
    [key \in {keys[k] : k \in 1..Len(keys)} |->
        row[Columns[CHOOSE k \in 1..Len(keys) : keys[k] = key]]]

\* The results get_facas_db(search) may return on table rws.
get_facas_db(rws, srch) ==
    LET sel == Selected(rws, srch)
    IN  {[k \in 1..Cardinality(sel) |-> Entry(rws[p[k]])] :
            p \in OrderByUploadedAtDesc(rws, sel)}

\* A variant of update_faca_db that writes the CDR columns whether or not
\* cdr_info is given.
update_faca_db_writing_cdr(faca_id, name, description, pdf_info, cdr_info, thumb_path) ==
    [i \in 1..Len(rows) |->
        IF rows[i].id # faca_id THEN rows[i]
        ELSE LET cdr == IF cdr_info # NoInfo THEN cdr_info ELSE <<None, None>>
                 r1 == [rows[i] EXCEPT !.name = name, !.description = description,
                                       !.cdr_filename = cdr[1],
                                       !.cdr_original_name = cdr[2]]
             IN  IF pdf_info # NoInfo
                 THEN [r1 EXCEPT !.pdf_filename = pdf_info[1],
                                 !.pdf_original_name = pdf_info[2],
                                 !.thumb = thumb_path]
                 ELSE r1]

update_faca_db(faca_id, name, description, pdf_info, cdr_info, thumb_path) ==
    [i \in 1..Len(rows) |->
        IF rows[i].id # faca_id THEN rows[i]
        ELSE LET r1 == [rows[i] EXCEPT !.name = name, !.description = description]
                 r2 == IF pdf_info # NoInfo
                       THEN [r1 EXCEPT !.pdf_filename = pdf_info[1],
                                       !.pdf_original_name = pdf_info[2],
                                       !.thumb = thumb_path]
                       ELSE r1
             IN  IF cdr_info # NoInfo
                 THEN [r2 EXCEPT !.cdr_filename = cdr_info[1],
                                 !.cdr_original_name = cdr_info[2]]
                 ELSE r2]

\* delete_faca_db(faca_id): the upload directory and the table afterwards.
\* Every name of the row, the thumbnail's included, is looked up under
\* UPLOAD_DIR (line 129); THUMB_DIR is not touched.
delete_faca_db(faca_id) ==
    LET found == {i \in 1..Len(rows) : rows[i].id = faca_id}
        names == UNION {{rows[i].pdf_filename, rows[i].thumb, rows[i].cdr_filename} : i \in found}
        gone == {f \in names : f # None /\ f \in DOMAIN uploads}
    IN  [uploads |-> Restrict(uploads, DOMAIN uploads \ gone),
         rows |-> SelectSeq(rows, LAMBDA r : r.id # faca_id)]

\* ---------------------------------------------------------------------------
\* Script passes
\* ---------------------------------------------------------------------------
\* A variant of the condition below that does not wait for the confirmation.
DeleteUnconfirmed == delete_id # NoId

\* Line 195: the delete block at the top of the script runs.
DeleteConfirmed == confirm_delete /\ delete_id # NoId

\* A variant of the validation below that accepts an empty name.
add_validation_pdf_only(name, pdf_file) ==
    IF pdf_file = NoFile THEN MsgPdf ELSE NoMessage

\* The validation of form_add (lines 333-336): the message shown, or none.
add_validation(name, pdf_file) ==
    IF name = <<>> THEN MsgNome
    ELSE IF pdf_file = NoFile THEN MsgPdf
    ELSE NoMessage

\* What a pass that renders the view menu to its end reports: the list view
\* asks for the confirmation of a pending delete with st.error (lines
\* 308-309), the other views report nothing.
render_message(menu) ==
    IF menu = "Listar Facas" /\ delete_id # NoId THEN MsgConfirma ELSE NoMessage

\* The pass that st.rerun() starts, with the menu at view menu.  Lines
\* 195-200 delete the confirmed target and ask for another pass; otherwise
\* the page is rendered.
RerunPass(menu) ==
    /\ rerun
    /\ edit_form' = NoId
    /\ IF DeleteConfirmed
       THEN /\ LET done == delete_faca_db(delete_id)
               IN  rows' = done.rows /\ uploads' = done.uploads
            /\ message' = MsgExcluido
            /\ delete_id' = NoId
            /\ confirm_delete' = FALSE
            /\ UNCHANGED <<autoinc, thumbs, clock, issued, rerun>>
       ELSE /\ message' = render_message(menu)
            /\ rerun' = FALSE
            /\ UNCHANGED <<rows, autoinc, uploads, thumbs, clock, issued, delete_id, confirm_delete>>

\* A pass in which no button fires (the menu or the search box changed): the
\* view menu is rendered again, without the previous pass's message.
RenderPass(menu) ==
    /\ ~rerun /\ ~DeleteConfirmed
    /\ edit_form' = NoId
    /\ message' = render_message(menu)
    /\ UNCHANGED <<rows, autoinc, uploads, thumbs, clock, issued, delete_id, confirm_delete, rerun>>

\* Submitting form_add in the "Adicionar Faca" view with a field missing
\* (lines 326-336): the message is shown and nothing else happens.
AddRejected(name, pdf_file) ==
    /\ ~rerun /\ ~DeleteConfirmed
    /\ add_validation(name, pdf_file) # NoMessage
    /\ message' = add_validation(name, pdf_file)
    /\ edit_form' = NoId
    /\ UNCHANGED <<rows, autoinc, uploads, thumbs, clock, issued, delete_id,
                   confirm_delete, rerun>>

\* Submitting form_add with name and PDF given (lines 326-347); now is what
\* datetime.datetime.now() returns inside add_faca_db.
AddSubmit(now, name, description, pdf_file, cdr_file) ==
    /\ ~rerun /\ ~DeleteConfirmed
    /\ add_validation(name, pdf_file) = NoMessage
    /\ autoinc < MaxId
    /\ issued + Files(<<pdf_file, cdr_file>>) <= MaxUploads
    /\ LET pdf == save_upload(Disk, pdf_file)
           gen == generate_pdf_thumbnail(pdf.uploads, thumbs, pdf.info[1])
           cdr == IF cdr_file # NoFile THEN save_upload(pdf, cdr_file) ELSE no_upload(pdf)
       IN  /\ uploads' = cdr.uploads
           /\ issued' = cdr.issued
           /\ thumbs' = gen.thumbs
           /\ rows' = add_faca_db(now, name, description, pdf.info, cdr.info, gen.thumb)
    /\ autoinc' = autoinc + 1
    /\ clock' = now
    /\ message' = MsgAdicionada
    /\ edit_form' = NoId
    /\ rerun' = TRUE
    /\ UNCHANGED <<delete_id, confirm_delete>>

\* The entries of facas = get_facas_db(search) (lines 207-209) under some
\* search term: in whatever order they come, those of the selected rows.
Listed == {Entry(rows[i]) : i \in UNION {Selected(rows, term) : term \in SearchInputs}}

\* The "Editar" button of the listed entry f (lines 265-271): st.button
\* returns True in the pass its click starts, the form is rendered with its
\* submit button not pressed, and the script goes on to the end of the view.
ClickEdit(f) ==
    /\ ~rerun /\ ~DeleteConfirmed
    /\ f \in Listed
    /\ edit_form' = f.id
    /\ message' = render_message("Listar Facas")
    /\ UNCHANGED <<rows, autoinc, uploads, thumbs, clock, issued, delete_id,
                   confirm_delete, rerun>>

\* Pressing "Salvar alteracoes" in the form_edit of the listed entry f with
\* the values given.  The click starts a pass in which st.button of line 265
\* returns False, as it does in every pass another widget starts: the form
\* and its handler (lines 266-299) are not executed, the values are dropped
\* and the view is rendered without the form.
EditSubmit(f, new_name, new_desc, replace_pdf, replace_cdr) ==
    /\ ~rerun /\ ~DeleteConfirmed
    /\ f \in Listed
    /\ edit_form = f.id
    /\ edit_form' = NoId
    /\ message' = render_message("Listar Facas")
    /\ UNCHANGED <<rows, autoinc, uploads, thumbs, clock, issued, delete_id,
                   confirm_delete, rerun>>

\* update_faca_db called with the arguments given, as a caller of the
\* function does; the page has no pass that reaches its one call (line 297).
UpdateCall(faca_id, name, description, pdf_info, cdr_info, thumb_path) ==
    /\ ~rerun
    /\ rows' = update_faca_db(faca_id, name, description, pdf_info, cdr_info, thumb_path)
    /\ UNCHANGED <<autoinc, uploads, thumbs, clock, issued, delete_id, confirm_delete,
                   message, edit_form, rerun>>

\* The "Excluir" button of the listed entry f (lines 303-306).
ClickDelete(f) ==
    /\ ~rerun /\ ~DeleteConfirmed
    /\ f \in Listed
    /\ delete_id' = f.id
    /\ confirm_delete' = FALSE
    /\ message' = NoMessage
    /\ edit_form' = NoId
    /\ rerun' = TRUE
    /\ UNCHANGED <<rows, autoinc, uploads, thumbs, clock, issued>>

\* "Sim, quero excluir" of the prompt of the list view (lines 308-317); the
\* prompt was reported before the button is reached.
ConfirmYes ==
    /\ ~rerun /\ ~DeleteConfirmed
    /\ delete_id # NoId
    /\ confirm_delete' = TRUE
    /\ edit_form' = NoId
    /\ message' = render_message("Listar Facas")
    /\ rerun' = TRUE
    /\ UNCHANGED <<rows, autoinc, uploads, thumbs, clock, issued, delete_id>>

\* "Nao, cancelar" of the prompt of the list view (lines 308-322).
CancelNo ==
    /\ ~rerun /\ ~DeleteConfirmed
    /\ delete_id # NoId
    /\ delete_id' = NoId
    /\ edit_form' = NoId
    /\ confirm_delete' = FALSE
    /\ message' = render_message("Listar Facas")
    /\ rerun' = TRUE
    /\ UNCHANGED <<rows, autoinc, uploads, thumbs, clock, issued>>

\* ---------------------------------------------------------------------------
\* Specifications
\* ---------------------------------------------------------------------------
\* First start: init_db creates an empty table, mkdir creates empty
\* directories and lines 190-193 initialise the session state.
Init ==
    /\ rows = <<>>
    /\ autoinc = 0
    /\ uploads = <<>>
    /\ thumbs = {}
    /\ clock = 0
    /\ issued = 0
    /\ delete_id = NoId
    /\ confirm_delete = FALSE
    /\ message = NoMessage
    /\ edit_form = NoId
    /\ rerun = FALSE

\* What datetime.datetime.now() may return, in whole seconds.  It is the
\* local wall-clock time, which may stand still between two readings and may
\* go back (end of daylight saving time, a clock set back).
NowInputs == 0..MaxClock

Next ==
    \/ \E menu \in Menus : RerunPass(menu)
    \/ \E menu \in Menus : RenderPass(menu)
    \/ \E text \in TextInputs, pdf_file \in PdfInputs \cup {NoFile} :
          AddRejected(text.name, pdf_file)
    \/ \E now \in NowInputs, text \in TextInputs,
          pdf_file \in PdfInputs \cup {NoFile}, cdr_file \in CdrInputs \cup {NoFile} :
          AddSubmit(now, text.name, text.description, pdf_file, cdr_file)
    \/ \E f \in Listed : ClickEdit(f)
    \/ \E f \in Listed, text \in TextInputs,
          replace_pdf \in PdfInputs \cup {NoFile}, replace_cdr \in CdrInputs \cup {NoFile} :
          EditSubmit(f, text.name, text.description, replace_pdf, replace_cdr)
    \/ \E f \in Listed : ClickDelete(f)
    \/ ConfirmYes
    \/ CancelNo

Spec == Init /\ [][Next]_vars

\* What a caller of update_faca_db may pass for pdf_info, cdr_info and
\* thumb_path.
NewPdf == <<<<"n1", ".pdf">>, <<"Nova", ".pdf">>>>
NewCdr == <<<<"n2", ".cdr">>, <<"nova", ".cdr">>>>
NewThumb == <<"n1_p0", ".png">>
AssetInputs == {[pdf_info |-> NoInfo, cdr_info |-> NoInfo, thumb_path |-> NewThumb],
                [pdf_info |-> NoInfo, cdr_info |-> NewCdr, thumb_path |-> None],
                [pdf_info |-> NewPdf, cdr_info |-> NoInfo, thumb_path |-> NewThumb]}

\* update_faca_db called on the tables the Add form builds.
NextUpdate ==
    \/ \E menu \in Menus : RerunPass(menu)
    \/ \E now \in NowInputs, text \in TextInputs,
          pdf_file \in PdfInputs \cup {NoFile}, cdr_file \in CdrInputs \cup {NoFile} :
          AddSubmit(now, text.name, text.description, pdf_file, cdr_file)
    \/ \E faca_id \in 1..MaxId, text \in TextInputs, a \in AssetInputs :
          UpdateCall(faca_id, text.name, text.description, a.pdf_info, a.cdr_info,
                     a.thumb_path)

SpecUpdate == Init /\ [][NextUpdate]_vars

\* ---------------------------------------------------------------------------
\* Properties
\* ---------------------------------------------------------------------------
AnyPdf == PdfInputs \cup {NoFile}
AnyCdr == CdrInputs \cup {NoFile}

\* t occurs in s as a run of consecutive characters, letters compared without
\* regard to case.
Contains(s, t) ==
    \E start \in 0..(Len(s) - Len(t)) :
        \A k \in 1..Len(t) : LowerChar(s[start + k]) = LowerChar(t[k])

\* C1: create fails and inserts no row when the catalog already holds an entry
\* with the same name or the same stored PDF filename: a step that inserts a
\* row inserts one whose name and pdf_filename no earlier row carries.
C1_CreateRejectsDuplicate ==
    [][Len(rows') > Len(rows) =>
          \A i \in 1..Len(rows) :
              /\ rows[i].name # rows'[Len(rows')].name
              /\ rows[i].pdf_filename # rows'[Len(rows')].pdf_filename]_vars

\* C2: a step that deletes a row leaves none of the files the row named (its
\* PDF, its CDR, its thumbnail) in the upload or thumbnail directory.
C2_DeleteRemovesFiles ==
    [][\A i \in 1..Len(rows) :
          rows[i].id \notin Ids(rows') =>
              \A f \in {rows[i].pdf_filename, rows[i].cdr_filename, rows[i].thumb} :
                  f \notin DOMAIN uploads' /\ f \notin thumbs']_vars

\* C3: for every search term, get_facas_db returns exactly the entries whose
\* name or description contains the term as a substring; the empty term
\* returns all entries.
C3_ListIsSubstringSearch ==
    \A term \in SearchInputs : \A l \in get_facas_db(rows, term) :
        {l[k].id : k \in 1..Len(l)} =
            {rows[i].id : i \in {j \in 1..Len(rows) :
                \/ Contains(rows[j].name, term)
                \/ rows[j].description # None /\ Contains(rows[j].description, term)}}

\* C4: update_faca_db overwrites name and description of the row with the
\* given id and leaves its PDF columns and thumbnail alone when no pdf_info is
\* given, its CDR columns alone when no cdr_info is given, and its id, its
\* uploaded_at and every other row alone always.
C4_UpdateFrame ==
    \A faca_id \in 1..MaxId, text \in TextInputs, a \in AssetInputs :
        LET updated == update_faca_db(faca_id, text.name, text.description,
                                      a.pdf_info, a.cdr_info, a.thumb_path)
        IN  /\ Len(updated) = Len(rows)
            /\ \A i \in 1..Len(rows) :
                  IF rows[i].id # faca_id THEN updated[i] = rows[i]
                  ELSE /\ updated[i].name = text.name
                       /\ updated[i].description = text.description
                       /\ a.pdf_info = NoInfo =>
                             /\ updated[i].pdf_filename = rows[i].pdf_filename
                             /\ updated[i].pdf_original_name = rows[i].pdf_original_name
                             /\ updated[i].thumb = rows[i].thumb
                       /\ a.cdr_info = NoInfo =>
                             /\ updated[i].cdr_filename = rows[i].cdr_filename
                             /\ updated[i].cdr_original_name = rows[i].cdr_original_name
                       /\ updated[i].id = rows[i].id
                       /\ updated[i].uploaded_at = rows[i].uploaded_at

\* C4 witness: beside another entry, an entry has been updated with a new name
\* and a CDR only, and carries the PDF and the thumbnail of its Add.
C4_Witness ==
    /\ Len(rows) = 2
    /\ \E i \in 1..Len(rows) :
          /\ rows[i].name = <<>>
          /\ rows[i].pdf_filename = <<Uid(i), ".pdf">>
          /\ rows[i].thumb = ThumbOf(rows[i].pdf_filename)
          /\ rows[i].cdr_filename = NewCdr[1]

\* C5: a row is deleted only by the pass that finds its id pending and
\* confirmed, and that pass returns to Idle; confirmation is given only while
\* a target is pending and changes neither the target nor the catalog;
\* selecting a target only retargets; cancel returns to Idle with the catalog
\* and the directories unchanged.
C5_DeleteConfirmation ==
    [][/\ \A i \in 1..Len(rows) :
             rows[i].id \notin Ids(rows') =>
                 /\ delete_id = rows[i].id /\ confirm_delete
                 /\ delete_id' = NoId /\ ~confirm_delete'
                 /\ \A j \in 1..Len(rows) : j # i => rows[j].id \in Ids(rows')
       /\ (confirm_delete' /\ ~confirm_delete) =>
             delete_id # NoId /\ delete_id' = delete_id /\ rows' = rows
       /\ (delete_id' # delete_id /\ delete_id' # NoId) =>
             /\ delete_id' \in Ids(rows) /\ ~confirm_delete'
             /\ rows' = rows /\ uploads' = uploads /\ thumbs' = thumbs
       /\ (delete_id # NoId /\ delete_id' = NoId /\ ~confirm_delete) =>
             rows' = rows /\ uploads' = uploads /\ thumbs' = thumbs /\ ~confirm_delete'
      ]_vars

\* C5 witness: a confirmed delete has just removed the later of two entries;
\* the earlier one is still in the catalog and the session is Idle again.
C5_Witness ==
    /\ message = MsgExcluido
    /\ delete_id = NoId /\ ~confirm_delete
    /\ Len(rows) = 1 /\ rows[1].id = 1

\* C6: an Add submission with an empty name or without a PDF shows a message
\* and changes neither the table, nor the directories, nor the session state.
C6_AddRejectedChangesNothing ==
    [][\A now \in NowInputs, text \in TextInputs, pdf_file \in AnyPdf, cdr_file \in AnyCdr :
          (/\ text.name = <<>> \/ pdf_file = NoFile
           /\ \/ AddRejected(text.name, pdf_file)
              \/ AddSubmit(now, text.name, text.description, pdf_file, cdr_file)) =>
              /\ message' \in {MsgNome, MsgPdf}
              /\ UNCHANGED <<rows, autoinc, uploads, thumbs, issued, delete_id,
                             confirm_delete>>]_vars

\* C6 witness: a submission was just rejected while the catalog holds an
\* entry and a delete is pending.
C6_Witness ==
    /\ message \in {MsgNome, MsgPdf}
    /\ rows # <<>>
    /\ delete_id # NoId

\* C7: an Edit submission with a replacement PDF leaves neither the old PDF
\* nor the old thumbnail on disk, and the row names the newly stored PDF and
\* its new thumbnail (None when none could be generated); with a replacement
\* CDR the old CDR is gone and the row names the new one; the row is updated
\* whether or not the old files existed.
C7_EditReplacesFiles ==
    [][(edit_form # NoId /\ edit_form' = NoId) =>
          \A i \in 1..Len(rows), text \in TextInputs, rp \in AnyPdf, rc \in AnyCdr :
              EditSubmit(Entry(rows[i]), text.name, text.description, rp, rc) =>
                  /\ rows'[i].name = text.name
                  /\ rows'[i].description = text.description
                  /\ rp # NoFile =>
                        /\ rows[i].pdf_filename \notin DOMAIN uploads'
                        /\ rows[i].thumb \notin thumbs'
                        /\ rows'[i].pdf_filename # rows[i].pdf_filename
                        /\ rows'[i].pdf_filename \in DOMAIN uploads'
                        /\ rows'[i].pdf_filename \notin DOMAIN uploads
                        /\ uploads'[rows'[i].pdf_filename] = rp.buffer
                        /\ rows'[i].pdf_original_name = rp.name
                        /\ IF rp.buffer >= 1
                           THEN /\ rows'[i].thumb = ThumbOf(rows'[i].pdf_filename)
                                /\ rows'[i].thumb \in thumbs'
                           ELSE rows'[i].thumb = None
                  /\ rc # NoFile =>
                        /\ rows[i].cdr_filename \notin DOMAIN uploads'
                        /\ rows'[i].cdr_filename # rows[i].cdr_filename
                        /\ rows'[i].cdr_filename \in DOMAIN uploads'
                        /\ rows'[i].cdr_filename \notin DOMAIN uploads
                        /\ rows'[i].cdr_original_name = rc.name]_vars

\* C8 as claimed: in every listing an entry created later than another (its
\* id is larger) never comes after it.
C8_NewestCreatedFirst ==
    \A term \in SearchInputs : \A l \in get_facas_db(rows, term) :
        \A j, k \in 1..Len(l) : j < k => l[j].id > l[k].id

\* C8 as amended: every listing is in non-increasing order of the uploaded_at
\* its entries' rows carry in the table.
C8_OrderedByUploadedAt ==
    \A term \in SearchInputs : \A l \in get_facas_db(rows, term) :
        \A j, k \in 1..Len(l) :
            j < k => Seconds(RowById(rows, l[j].id).uploaded_at)
                         >= Seconds(RowById(rows, l[k].id).uploaded_at)

\* C8 witness: the catalog holds two entries created in different seconds.
C8_Witness ==
    /\ Len(rows) = 2
    /\ Seconds(rows[1].uploaded_at) < Seconds(rows[2].uploaded_at)
    /\ ~rerun

\* C9: after a successful Add, list("") holds an entry with the submitted name
\* and a non-null pdf_filename.
C9_AddThenListed ==
    [][(message' = MsgAdicionada /\ ~rerun) =>
          \A now \in NowInputs, text \in TextInputs, pdf_file \in AnyPdf, cdr_file \in AnyCdr :
              AddSubmit(now, text.name, text.description, pdf_file, cdr_file) =>
                  \A l \in get_facas_db(rows', <<>>) :
                      \E k \in 1..Len(l) :
                          /\ l[k].name = text.name
                          /\ l[k].pdf_filename # None]_vars

\* C9 witness: an Add has just succeeded for a PDF of which no thumbnail
\* could be generated.
C9_Witness ==
    /\ message = MsgAdicionada
    /\ rows[Len(rows)].thumb = None

\* C10: every row's pdf_filename and non-null cdr_filename name a file of the
\* upload directory, no stored filename is named by two rows, and every file
\* of the upload and thumbnail directories is named by some row.
C10_StoreMatchesCatalog ==
    /\ \A i \in 1..Len(rows) :
          /\ rows[i].pdf_filename \in DOMAIN uploads
          /\ rows[i].cdr_filename # None => rows[i].cdr_filename \in DOMAIN uploads
    /\ \A i, j \in 1..Len(rows) :
          i # j => {rows[i].pdf_filename, rows[i].cdr_filename} \cap
                   {rows[j].pdf_filename, rows[j].cdr_filename} \subseteq {None}
    /\ \A f \in DOMAIN uploads :
          \E i \in 1..Len(rows) : f \in {rows[i].pdf_filename, rows[i].cdr_filename}
    /\ \A t \in thumbs : \E i \in 1..Len(rows) : rows[i].thumb = t

====
